---- MODULE Spec2Model ----
(***************************************************************************)
(* The notebook batch verifier of python-for-signal-processing.            *)
(*                                                                         *)
(* The repository holds three runners for the same job:                    *)
(*   "A"  src/test_notebooks.py lines 1-334   (NotebookTester.run_tests:   *)
(*        structure check, execution with a kernel-override fallback,      *)
(*        max_failures, save_results)                                      *)
(*   "B"  src/test_notebooks.py lines 336-548 (NotebookTester.             *)
(*        test_directory: JSON check, execution under a timeout)           *)
(*   "S"  src/simple_test.py                  (functions, counters only)   *)
(* One run of one runner is one behaviour; Init picks the runner, the      *)
(* command line and the corpus on disk.                                    *)
(*                                                                         *)
(* Taken as given: the command line parses (B and S get their directory    *)
(* argument), and the writes of the runners themselves succeed (print,     *)
(* save_results' file, the test-failures/ files of runner B). What the     *)
(* execution tool and the operating system do to a subprocess call is      *)
(* left open: it exits with any status, outlasts the timeout, or cannot    *)
(* be started; creating the temporary file can fail too.                   *)
(*                                                                         *)
(* Specifications:                                                         *)
(*   Spec           a run of a runner over a corpus, from main to exit     *)
(*   SpecInterrupt  the same run with a KeyboardInterrupt during the loop  *)
(*   SpecDiscovery  find_notebooks over a directory tree of named paths    *)
(*   SpecValidator  a validator called on the content of one file          *)
(*   SpecTotal      test_notebook_structure on files of every shape        *)
(*   SpecThreshold  the first runner under every --max-failures value      *)
(***************************************************************************)
EXTENDS Integers, Sequences, FiniteSets, TLC

(* ---------------------------- bounds ----------------------------------- *)
MaxNotebooks == 3
MaxFailuresArg == 2

(* ------------------------ program constants ---------------------------- *)
CellTimeoutA == 300
CellTimeoutB == 60
CellTimeoutS == 120
OuterTimeoutS == 600
DefaultTimeout == 600

(* --max-failures absent: args.max_failures is None *)
None == -1

Variants == {"A", "B", "S"}

(* What a notebook file on disk holds, as far as the validators tell       *)
(* documents apart: a well-formed document, a file that is not JSON, and   *)
(* a JSON document without `metadata`. A file that cannot be opened        *)
(* ("unreadable") takes the path of one that is not JSON, with another     *)
(* text; the validators handle it, the corpora of a run leave it out.      *)
DocKinds == {"valid", "badjson", "nometadata"}

(* str(e) of the exceptions the operating system can raise while a         *)
(* subprocess is orchestrated.                                             *)
ExcTexts == {"[Errno 2] No such file or directory: 'jupyter'"}

(* --timeout values on the command line of runner B *)
TimeoutValues == {30, DefaultTimeout}

(* subprocess.CompletedProcess values the execution tool can produce *)
CompletedProcs ==
    { [returncode |-> 0, stdout |-> "written",  stderr |-> ""],
      [returncode |-> 1, stdout |-> "",         stderr |-> "CellExecutionError"],
      [returncode |-> 2, stdout |-> "usage",    stderr |-> ""] }

NoProc == [returncode |-> -1, stdout |-> "", stderr |-> ""]

VARIABLES
    variant,               \* which runner is run
    root_exists,           \* the directory given on the command line exists
    tree,                  \* the notebook files on disk, in path order: their documents
    execute_notebooks,     \* A: not --no-execute
    max_failures,          \* A: --max-failures (None when absent)
    save_requested,        \* A: --save-results given
    timeout_seconds,       \* B: --timeout
    has_timeout_decorator, \* B: the timeout_decorator import succeeded
    pc,                    \* position of the control thread
    notebooks,             \* the sequence find_notebooks returned
    i,                     \* 1-based index of the notebook being processed
    failure_count,         \* A: run_tests' local counter
    stopped,               \* A: the max_failures break was taken
    passed, failed, skipped, errors,   \* self.results
    all_passed,            \* B: test_directory's local flag
    passed_n, failed_n,    \* S: main's counters
    tempfiles,             \* temporary output files that exist on disk
    spawned,               \* log of subprocess.run calls
    raised,                \* log of the exceptions raised inside execute_notebook
    first,                 \* A: the CompletedProcess of the primary attempt
    ret,                   \* value returned by execute_notebook / printed by S
    summary,               \* what print_summary printed
    saved,                 \* what save_results wrote
    uncaught,              \* an exception left main uncaught
    exit_code,             \* the process exit status, None while running
    interrupted,           \* a KeyboardInterrupt was delivered to the run
    listing,               \* discovery: the *.ipynb paths below the root
    found,                 \* discovery: the sequence of paths returned
    document,              \* validation: the content of the file handed in
    outcome                \* validation: the value the validator returned

vars == << variant, root_exists, tree, execute_notebooks, max_failures,
           save_requested, timeout_seconds, has_timeout_decorator, pc,
           notebooks, i, failure_count, stopped, passed, failed, skipped,
           errors, all_passed, passed_n, failed_n, tempfiles, spawned, raised,
           first, ret, summary, saved, uncaught, exit_code, interrupted,
           listing, found, document, outcome >>

(* what the steps of a run over the corpus `tree` never touch: the inputs  *)
(* and results of a discovery or a validation looked at on its own, and    *)
(* the interrupt flag                                                      *)
aside == << interrupted, listing, found, document, outcome >>

(* the command line and the environment of one run *)
settings == << variant, root_exists, tree, execute_notebooks, max_failures,
               save_requested, timeout_seconds, has_timeout_decorator >>

config == << settings, aside >>

(* ------------------------- diagnostics --------------------------------- *)
(* A diagnostic string is kept as its format and the values put into it.   *)
(*   prefix  text put in front by the caller ("Structure error: ")         *)
(*   kind    the literal part of the f-string                              *)
(*   text    the interpolated text (exception text, key list, stream)      *)
(*   T       the interpolated number of seconds                            *)
(*   first, second   the interpolated CompletedProcess values              *)
Msg(kind, text, T, r1, r2) ==
    [prefix |-> "", kind |-> kind, text |-> text, T |-> T,
     first |-> r1, second |-> r2]

Empty == Msg("", "", 0, NoProc, NoProc)

NoRet == [ok |-> FALSE, msg |-> Msg("none", "", 0, NoProc, NoProc)]

NoSummary ==
    [printed |-> FALSE, complete |-> FALSE, total |-> 0, passed |-> 0,
     failed |-> 0, skipped |-> 0]

NoSaved ==
    [written |-> FALSE, passed |-> << >>, failed |-> << >>, skipped |-> << >>,
     errors |-> << >>]

(* A store that drops the new entry *)
Put_Nothing(f, k, v) == f

(* A store that keeps the new entry only *)
Put_Only(f, k, v) == [x \in {k} |-> v]

(* d[k] = v on a dict *)
Put(f, k, v) == [x \in (DOMAIN f) \cup {k} |-> IF x = k THEN v ELSE f[x]]

SeqSet(s) == { s[k] : k \in DOMAIN s }

(* Python truthiness of max_failures: None and 0 are falsy *)
Truthy(n) == n # None /\ n # 0


(* ----------------------------- discovery ------------------------------- *)
(* The files on disk are kept in path order, so the sorted, checkpoint-    *)
(* free result of the glob is the sequence of their indices.               *)
find_notebooks == [k \in 1..Len(tree) |-> k]

(* B and S: a directory that does not exist yields the empty sequence *)
find_notebooks_in(exists) == IF exists THEN find_notebooks ELSE << >>

(* --------------------------- validation -------------------------------- *)
(* The content of a notebook file. `file` says whether open() and          *)
(* json.load() succeed; the other fields describe the parsed object: which *)
(* keys it has, whether the value of a key is a list, and what the list    *)
(* holds. JSON also allows a root, a worksheet or a cell that is no object  *)
(* and an nbformat that is no number: `root`, `mapping` and                *)
(* `nbformat_is_number` say so.                                            *)
MaxCells == 2          \* cells in one list of cells
MaxWorksheets == 1     \* worksheets in one notebook

NbformatValues == {2, 3, 4, 5}

(* a cell: the keys of it that the validator looks at *)
Cell(has_type, type, has_input, has_source) ==
    [mapping |-> TRUE, has_cell_type |-> has_type, cell_type |-> type,
     has_input |-> has_input, has_source |-> has_source]

(* a cell that is a number: `'cell_type' not in cell` raises TypeError *)
ScalarCell == [Cell(FALSE, "", FALSE, FALSE) EXCEPT !.mapping = FALSE]

Cells ==
    { Cell(FALSE, "", TRUE, TRUE),
      Cell(TRUE, "code", TRUE, FALSE), Cell(TRUE, "code", FALSE, TRUE),
      Cell(TRUE, "markdown", FALSE, TRUE), Cell(TRUE, "markdown", TRUE, FALSE) }

NoCells == [mapping |-> TRUE, has_cells |-> FALSE, cells_is_list |-> FALSE,
            cells |-> << >>]
OneCell == [mapping |-> TRUE, has_cells |-> TRUE, cells_is_list |-> TRUE,
            cells |-> << Cell(TRUE, "code", FALSE, TRUE) >>]

(* a worksheet that is a number: `'cells' not in worksheet` raises         *)
(* TypeError                                                               *)
ScalarWorksheet == [NoCells EXCEPT !.mapping = FALSE]

CellLists == UNION { [1..n -> Cells] : n \in 0..MaxCells }

(* the value of a 'cells' key: absent, not a list, or a list of cells *)
CellsValues ==
    { NoCells,
      [mapping |-> TRUE, has_cells |-> TRUE, cells_is_list |-> FALSE, cells |-> << >>] }
    \cup { [mapping |-> TRUE, has_cells |-> TRUE, cells_is_list |-> TRUE,
            cells |-> cs] : cs \in CellLists }

WorksheetLists == UNION { [1..n -> CellsValues] : n \in 0..MaxWorksheets }

WorksheetsValues ==
    { [has_worksheets |-> FALSE, worksheets_is_list |-> FALSE, worksheets |-> << >>],
      [has_worksheets |-> TRUE, worksheets_is_list |-> FALSE, worksheets |-> << >>] }
    \cup { [has_worksheets |-> TRUE, worksheets_is_list |-> TRUE, worksheets |-> ws] :
             ws \in WorksheetLists }

Notebook(file, has_metadata, has_nbformat, nbformat, w, c) ==
    [file |-> file, root |-> "mapping", has_metadata |-> has_metadata,
     has_nbformat |-> has_nbformat, nbformat_is_number |-> TRUE,
     nbformat |-> nbformat,
     has_worksheets |-> w.has_worksheets,
     worksheets_is_list |-> w.worksheets_is_list, worksheets |-> w.worksheets,
     has_cells |-> c.has_cells, cells_is_list |-> c.cells_is_list,
     cells |-> c.cells]

NoWorksheets == [has_worksheets |-> FALSE, worksheets_is_list |-> FALSE, worksheets |-> << >>]

(* a file open() or json.load() fails on *)
BrokenFile(file) == Notebook(file, FALSE, FALSE, 0, NoWorksheets, NoCells)

EmptyWorksheets == [has_worksheets |-> TRUE, worksheets_is_list |-> TRUE, worksheets |-> << >>]

(* the files a validator can be handed: the key that the branch for the    *)
(* file's nbformat reads takes every value, the other one of two           *)
Documents ==
    { BrokenFile("unreadable"), BrokenFile("badjson") }
    \cup { Notebook("json", m, TRUE, v, w, c) :
             m \in BOOLEAN, v \in { n \in NbformatValues : n <= 3 },
             w \in WorksheetsValues, c \in {NoCells, OneCell} }
    \cup { Notebook("json", m, TRUE, v, w, c) :
             m \in BOOLEAN, v \in { n \in NbformatValues : n > 3 },
             w \in {NoWorksheets, EmptyWorksheets}, c \in CellsValues }
    \cup { Notebook("json", m, FALSE, 0, w, c) :
             m \in BOOLEAN, w \in {NoWorksheets, EmptyWorksheets},
             c \in {NoCells, OneCell} }

(* a 'cells' value that is the list cs *)
ListOf(cs) ==
    [mapping |-> TRUE, has_cells |-> TRUE, cells_is_list |-> TRUE, cells |-> cs]

(* a 'worksheets' value that is the list ws *)
WorksheetsOf(ws) ==
    [has_worksheets |-> TRUE, worksheets_is_list |-> TRUE, worksheets |-> ws]

(* a JSON root that is a list (which may hold the strings 'metadata' and   *)
(* 'nbformat') or a number                                                 *)
RootNotMapping(kind, has_metadata, has_nbformat) ==
    [Notebook("json", has_metadata, has_nbformat, 0, NoWorksheets, NoCells)
        EXCEPT !.root = kind]

(* an object whose nbformat is a string *)
NbformatNotNumber(has_metadata, w, c) ==
    [Notebook("json", has_metadata, TRUE, 0, w, c)
        EXCEPT !.nbformat_is_number = FALSE]

(* lists of cells with a cell that is no object among them *)
ScalarCellLists ==
    { cs \in UNION { [1..n -> Cells \cup {ScalarCell}] : n \in 1..MaxCells } :
        \E k \in DOMAIN cs : cs[k] = ScalarCell }

(* lists of worksheets with a worksheet that is no object among them *)
ScalarWorksheetLists ==
    { ws \in UNION { [1..n -> {ScalarWorksheet, OneCell}] : n \in 1..MaxWorksheets } :
        \E k \in DOMAIN ws : ws[k] = ScalarWorksheet }

(* files whose JSON is not shaped like a notebook *)
MalformedDocuments ==
    { RootNotMapping("list", m, n) : m \in BOOLEAN, n \in BOOLEAN }
    \cup { RootNotMapping("scalar", FALSE, FALSE) }
    \cup { NbformatNotNumber(m, w, c) :
             m \in BOOLEAN, w \in {NoWorksheets, EmptyWorksheets},
             c \in {NoCells, OneCell} }
    \cup { Notebook("json", TRUE, TRUE, v, NoWorksheets, ListOf(cs)) :
             v \in { n \in NbformatValues : n > 3 }, cs \in ScalarCellLists }
    \cup { Notebook("json", TRUE, TRUE, v, WorksheetsOf(<< ListOf(cs) >>), NoCells) :
             v \in { n \in NbformatValues : n <= 3 }, cs \in ScalarCellLists }
    \cup { Notebook("json", TRUE, TRUE, v, WorksheetsOf(ws), NoCells) :
             v \in { n \in NbformatValues : n <= 3 }, ws \in ScalarWorksheetLists }

(* the file behind each kind of notebook of a corpus *)
Document(doc) ==
    CASE doc = "unreadable" -> BrokenFile("unreadable")
      [] doc = "badjson"    -> BrokenFile("badjson")
      [] doc = "nometadata" -> Notebook("json", FALSE, TRUE, 4, NoWorksheets, OneCell)
      [] OTHER              -> Notebook("json", TRUE, TRUE, 4, NoWorksheets, OneCell)

(* what a validator returns: (False, reason) with the reason's format      *)
(* string, the text and the 0-based indices put into it, or (True, "")     *)
Invalid(reason, text, ws, cell) ==
    [ok |-> FALSE, reason |-> reason, text |-> text, ws |-> ws, cell |-> cell]

Valid == [ok |-> TRUE, reason |-> "", text |-> "", ws |-> None, cell |-> None]

(* an exception of type e is on its way out of the `try` body *)
RaisedMark == "raise"
Raised(e) == Invalid(RaisedMark, e, None, None)

(* the way a scan leaves at a cell: by a return, or by the exception that  *)
(* the test of the cell raised                                             *)
Complaint(problem, ws, cell) ==
    IF problem = RaisedMark THEN Raised("TypeError")
    ELSE Invalid(problem, "", ws, cell)

Min(S) == CHOOSE x \in S : \A y \in S : x <= y

(* f"{missing_basic}" *)
MissingBasic(d) ==
    IF ~d.has_metadata /\ ~d.has_nbformat THEN "['metadata', 'nbformat']"
    ELSE IF ~d.has_metadata THEN "['metadata']"
    ELSE IF ~d.has_nbformat THEN "['nbformat']"
    ELSE ""

(* f"{missing_keys}": metadata and nbformat are there once the basic check *)
(* has passed                                                              *)
MissingKeys(d) == IF ~d.has_cells THEN "['cells']" ELSE ""

(* nbformat <= 3: the first complaint about a cell, "" when there is none *)
OldCellProblem(c) ==
    IF ~c.mapping THEN RaisedMark
    ELSE IF ~c.has_cell_type THEN "Worksheet {ws_i}, Cell {i} missing cell_type"
    ELSE IF c.cell_type = "code" /\ ~c.has_input
    THEN "Worksheet {ws_i}, Code cell {i} missing input"
    ELSE IF c.cell_type = "markdown" /\ ~c.has_source
    THEN "Worksheet {ws_i}, Markdown cell {i} missing source"
    ELSE ""

(* nbformat >= 4: the first complaint about a cell *)
NewCellProblem(c) ==
    IF ~c.mapping THEN RaisedMark
    ELSE IF ~c.has_cell_type THEN "Cell {i} missing cell_type"
    ELSE IF ~c.has_source THEN "Cell {i} missing source"
    ELSE ""

(* A scan of a worksheet that reports the last cell with a complaint *)
WorksheetResult_LastCell(w, ws_i) ==
    IF ~w.mapping THEN Raised("TypeError")
    ELSE IF ~w.has_cells THEN Invalid("Worksheet {ws_i} missing cells", "", ws_i, None)
    ELSE IF ~w.cells_is_list
    THEN Invalid("Worksheet {ws_i} cells must be a list", "", ws_i, None)
    ELSE LET bad == { k \in DOMAIN w.cells : OldCellProblem(w.cells[k]) # "" }
             last == CHOOSE x \in bad : \A y \in bad : y <= x
         IN  IF bad = {} THEN Valid
             ELSE Complaint(OldCellProblem(w.cells[last]), ws_i, last - 1)

(* the body of `for ws_i, worksheet in enumerate(...)` for one worksheet *)
WorksheetResult(w, ws_i) ==
    IF ~w.mapping THEN Raised("TypeError")
    ELSE IF ~w.has_cells THEN Invalid("Worksheet {ws_i} missing cells", "", ws_i, None)
    ELSE IF ~w.cells_is_list
    THEN Invalid("Worksheet {ws_i} cells must be a list", "", ws_i, None)
    ELSE LET bad == { k \in DOMAIN w.cells : OldCellProblem(w.cells[k]) # "" }
         IN  IF bad = {} THEN Valid
             ELSE Complaint(OldCellProblem(w.cells[Min(bad)]), ws_i, Min(bad) - 1)

(* the nbformat <= 3 branch *)
OldFormatResult(d) ==
    IF ~d.has_worksheets THEN Invalid("Old format notebook missing 'worksheets'", "", None, None)
    ELSE IF ~d.worksheets_is_list THEN Invalid("Worksheets must be a list", "", None, None)
    ELSE IF d.worksheets = << >> THEN Valid
    ELSE LET bad == { k \in DOMAIN d.worksheets :
                        ~WorksheetResult(d.worksheets[k], k - 1).ok }
         IN  IF bad = {} THEN Valid
             ELSE WorksheetResult(d.worksheets[Min(bad)], Min(bad) - 1)

(* A new-format branch that does not ask for 'cells' *)
NewFormatResult_NoRequiredKeys(d) ==
    LET bad == { k \in DOMAIN d.cells : NewCellProblem(d.cells[k]) # "" }
    IN  IF bad = {} THEN Valid
        ELSE Complaint(NewCellProblem(d.cells[Min(bad)]), None, Min(bad) - 1)

(* the nbformat >= 4 branch *)
NewFormatResult(d) ==
    IF MissingKeys(d) # "" THEN Invalid("Missing required keys: ", MissingKeys(d), None, None)
    ELSE IF ~d.cells_is_list THEN Invalid("Cells must be a list", "", None, None)
    ELSE LET bad == { k \in DOMAIN d.cells : NewCellProblem(d.cells[k]) # "" }
         IN  IF bad = {} THEN Valid
             ELSE Complaint(NewCellProblem(d.cells[Min(bad)]), None, Min(bad) - 1)

(* A basic check that asks for nbformat only *)
BasicResult_NoMetadata(d) ==
    IF ~d.has_nbformat
    THEN Invalid("Missing required basic keys: ", "['nbformat']", None, None)
    ELSE Valid

(* `if missing_basic: return False, ...` *)
BasicResult(d) ==
    IF MissingBasic(d) # ""
    THEN Invalid("Missing required basic keys: ", MissingBasic(d), None, None)
    ELSE Valid

(* the `try` body of test_notebook_structure: what it returns, or the     *)
(* exception it raises. `key not in notebook` works on a list and on a     *)
(* string and raises TypeError on a number; a list has no .get; a string   *)
(* does not compare with 3                                                 *)
StructureBody(d) ==
    IF d.file = "unreadable" THEN Raised("OSError")
    ELSE IF d.file = "badjson" THEN Raised("JSONDecodeError")
    ELSE IF d.root = "scalar" THEN Raised("TypeError")
    ELSE IF ~BasicResult(d).ok THEN BasicResult(d)
    ELSE IF d.root = "list" THEN Raised("AttributeError")
    ELSE IF ~d.nbformat_is_number THEN Raised("TypeError")
    ELSE IF d.nbformat <= 3 THEN OldFormatResult(d)
    ELSE NewFormatResult(d)

(* Handlers that catch json.JSONDecodeError only *)
Caught_JsonOnly(r) ==
    IF r.reason = RaisedMark /\ r.text = "JSONDecodeError"
    THEN Invalid("Invalid JSON: ", r.text, None, None)
    ELSE r

(* `except json.JSONDecodeError as e` and `except Exception as e` *)
Caught(r) ==
    IF r.reason # RaisedMark THEN r
    ELSE IF r.text = "JSONDecodeError" THEN Invalid("Invalid JSON: ", r.text, None, None)
    ELSE Invalid("Error reading file: ", r.text, None, None)

(* A: test_notebook_structure on the content of the file *)
notebook_structure(d) == Caught(StructureBody(d))

(* B: validate_notebook_format on the content of the file: json.load only *)
notebook_format(d) ==
    IF d.file = "unreadable" THEN Invalid("Error reading file: ", "OSError", None, None)
    ELSE IF d.file = "badjson"
    THEN Invalid("Invalid JSON format: ", "JSONDecodeError", None, None)
    ELSE Valid

(* a validator's result as the run keeps it *)
Kept(r) ==
    [ok |-> r.ok,
     msg |-> IF r.ok THEN Empty ELSE Msg(r.reason, r.text, 0, NoProc, NoProc)]

(* A: test_notebook_structure -> (ok, reason) *)
test_notebook_structure(doc) == Kept(notebook_structure(Document(doc)))

(* B: validate_notebook_format -> bool, with the text it stores in         *)
(* self.results['errors'] when it returns False                            *)
validate_notebook_format(doc) == Kept(notebook_format(Document(doc)))

(* A validator that stores a text whatever it returns *)
FormatErrors_Always(errs, nb, v) == Put(errs, nb, v.msg)

(* B: what validate_notebook_format leaves in self.results['errors'] *)
FormatErrors(errs, nb, v) == IF v.ok THEN errs ELSE Put(errs, nb, v.msg)

(* S: the json.load check at the head of test_notebook *)
json_check(doc) ==
    CASE doc = "unreadable" ->
           [ok |-> FALSE, msg |-> Msg("Error reading: ", "OSError", 0, NoProc, NoProc)]
      [] doc = "badjson" ->
           [ok |-> FALSE, msg |-> Msg("Invalid JSON: ", "JSONDecodeError", 0, NoProc, NoProc)]
      [] OTHER -> [ok |-> TRUE, msg |-> Empty]

(* run_tests: f"Structure error: {structure_error}" *)
StructureError(m) == [m EXCEPT !.prefix = "Structure error: "]

(* run_tests: `if max_failures and failure_count >= max_failures` *)
ShouldStop(limit, count) == Truthy(limit) /\ count >= limit

(* ------------------------------ Init ----------------------------------- *)
Corpora == UNION { [1..n -> DocKinds] : n \in 0..MaxNotebooks }

(* NotebookTester.__init__ and the locals of main before its first step *)
Fresh ==
    /\ pc = "main"
    /\ notebooks = << >>
    /\ i = 1
    /\ failure_count = 0
    /\ stopped = FALSE
    /\ passed = << >>
    /\ failed = << >>
    /\ skipped = << >>
    /\ errors = << >>
    /\ all_passed = TRUE
    /\ passed_n = 0
    /\ failed_n = 0
    /\ tempfiles = {}
    /\ spawned = << >>
    /\ raised = << >>
    /\ first = NoProc
    /\ ret = NoRet
    /\ summary = NoSummary
    /\ saved = NoSaved
    /\ uncaught = ""
    /\ exit_code = None
    /\ interrupted = FALSE

(* no discovery or validation is looked at on its own *)
NoAside ==
    /\ listing = {}
    /\ found = << >>
    /\ document = Document("valid")
    /\ outcome = Valid

Init ==
    /\ variant \in Variants
    /\ root_exists \in BOOLEAN
    /\ tree \in (IF root_exists THEN Corpora ELSE { << >> })
    /\ execute_notebooks \in (IF variant = "A" THEN BOOLEAN ELSE {TRUE})
    /\ max_failures \in (IF variant = "A" THEN {None} \cup (0..MaxFailuresArg) ELSE {None})
    /\ save_requested \in (IF variant = "A" THEN BOOLEAN ELSE {FALSE})
    /\ timeout_seconds \in (IF variant = "B" THEN TimeoutValues ELSE {DefaultTimeout})
    /\ has_timeout_decorator \in (IF variant = "B" THEN BOOLEAN ELSE {FALSE})
    /\ Fresh
    /\ NoAside

(* --------------------------- subprocess log ---------------------------- *)
(* --ExecutePreprocessor.timeout of the runner's command line *)
CellTimeout ==
    CASE variant = "A" -> CellTimeoutA
      [] variant = "B" -> CellTimeoutB
      [] OTHER         -> CellTimeoutS

(* timeout= of the runner's subprocess.run call; A passes none *)
OuterTimeout ==
    CASE variant = "A" -> None
      [] variant = "B" -> timeout_seconds
      [] OTHER         -> OuterTimeoutS

(* One entry per subprocess.run call: the notebook, which attempt it is,   *)
(* the --ExecutePreprocessor.kernel_name of its command line ("" when the  *)
(* command does not pin one), the two timeouts of the call, how the call   *)
(* ended and the exit status.                                              *)
Spawn(nb, attempt, kernel, how, rc) ==
    [nb |-> nb, attempt |-> attempt, kernel_name |-> kernel,
     cell_timeout |-> CellTimeout, timeout |-> OuterTimeout, how |-> how,
     returncode |-> rc]

(* One entry per exception raised while an execution is orchestrated: the  *)
(* notebook, the call that raised and str(e).                              *)
Fault(nb, at, e) == [nb |-> nb, at |-> at, exc |-> e]

(* os.unlink(temp_output_path) *)
Unlink(files, t) == files \ {t}

(* ======================== runner A: run_tests ========================== *)

(* An execute_notebook that makes the second attempt whatever the first   *)
(* one returned                                                            *)
NeedsFallback_Always(r) == TRUE

(* A: `if result.returncode == 0: return ... else:` the second attempt *)
NeedsFallback(r) == r.returncode # 0

(* A: the value execute_notebook returns after the primary attempt exits 0 *)
PrimarySuccessA == [ok |-> TRUE, msg |-> Empty]

(* A fallback result that reports the second attempt only *)
FallbackResultA_SecondOnly(r1, r2) ==
    IF r2.returncode = 0
    THEN [ok |-> TRUE, msg |-> Msg("Succeeded with kernel override", "", 0, NoProc, NoProc)]
    ELSE [ok |-> FALSE, msg |-> Msg("Both attempts failed.", "", 0, NoProc, r2)]

(* A: the value execute_notebook returns after the fallback attempt *)
FallbackResultA(r1, r2) ==
    IF r2.returncode = 0
    THEN [ok |-> TRUE, msg |-> Msg("Succeeded with kernel override", "", 0, NoProc, NoProc)]
    ELSE [ok |-> FALSE, msg |-> Msg("Both attempts failed.", "", 0, r1, r2)]

(* An `except Exception` that leaves str(e) out of the message *)
ExceptionResultA_NoText(e) ==
    [ok |-> FALSE, msg |-> Msg("Exception during execution: ", "", 0, NoProc, NoProc)]

(* A: `except Exception as e` of execute_notebook *)
ExceptionResultA(e) ==
    [ok |-> FALSE, msg |-> Msg("Exception during execution: ", e, 0, NoProc, NoProc)]

(* main: the root check, NotebookTester(repo_root), and the head of        *)
(* run_tests up to the loop                                                *)
MainA ==
    /\ variant = "A" /\ pc = "main"
    /\ IF ~root_exists
       THEN /\ exit_code' = 1
            /\ pc' = "done"
            /\ UNCHANGED << notebooks, i, failure_count >>
       ELSE /\ notebooks' = find_notebooks
            /\ i' = 1
            /\ failure_count' = 0
            /\ pc' = "loop"
            /\ UNCHANGED exit_code
    /\ UNCHANGED << config, stopped, passed, failed, skipped, errors,
                    all_passed, passed_n, failed_n, tempfiles, spawned, raised, first,
                    ret, summary, saved, uncaught >>

(* A run_tests that looks at execute_notebooks before structure_ok *)
StructureBranch_ExecuteFirst(structure_ok, execute) ==
    IF execute THEN "execute"
    ELSE IF ~structure_ok THEN "failed"
    ELSE "passed"

(* A run_tests that executes every valid notebook, whatever the mode *)
StructureBranch_AlwaysExecute(structure_ok, execute) ==
    IF ~structure_ok THEN "failed" ELSE "execute"

(* run_tests: where the loop body goes once test_notebook_structure has    *)
(* returned: `if not structure_ok: ... continue`, `if execute_notebooks`   *)
StructureBranch(structure_ok, execute) ==
    IF ~structure_ok THEN "failed"
    ELSE IF execute THEN "execute"
    ELSE "passed"

(* run_tests: one pass of the loop body up to the call of execute_notebook *)
RunTestsStructure ==
    /\ variant = "A" /\ pc = "loop" /\ ~stopped /\ i <= Len(notebooks)
    /\ LET nb == notebooks[i]
           s  == test_notebook_structure(tree[nb])
           to == StructureBranch(s.ok, execute_notebooks)
       IN  IF to = "failed"
           THEN /\ failed' = Append(failed, nb)
                /\ errors' = Put(errors, nb, StructureError(s.msg))
                /\ failure_count' = failure_count + 1
                /\ stopped' = ShouldStop(max_failures, failure_count + 1)
                /\ i' = IF ShouldStop(max_failures, failure_count + 1) THEN i ELSE i + 1
                /\ UNCHANGED << pc, passed >>
           ELSE IF to = "execute"
           THEN /\ pc' = "exec_begin"
                /\ UNCHANGED << failed, errors, failure_count, stopped, i, passed >>
           ELSE /\ passed' = Append(passed, nb)
                /\ i' = i + 1
                /\ UNCHANGED << pc, failed, errors, failure_count, stopped >>
    /\ UNCHANGED << config, notebooks, skipped, all_passed, passed_n, failed_n,
                    tempfiles, spawned, raised, first, ret, summary, saved, uncaught,
                    exit_code >>

(* execute_notebook: tempfile.NamedTemporaryFile(delete=False) *)
ExecuteBeginA ==
    /\ variant = "A" /\ pc = "exec_begin"
    /\ \/ /\ tempfiles' = tempfiles \cup {notebooks[i]}
          /\ pc' = "primary"
          /\ UNCHANGED << ret, raised >>
       \/ \E e \in ExcTexts :
            /\ raised' = Append(raised, Fault(notebooks[i], "tempfile", e))
            /\ ret' = ExceptionResultA(e)
            /\ pc' = "record"
            /\ UNCHANGED tempfiles
    /\ UNCHANGED << config, notebooks, i, failure_count, stopped, passed,
                    failed, skipped, errors, all_passed, passed_n, failed_n,
                    spawned, first, summary, saved, uncaught, exit_code >>

(* execute_notebook: the first subprocess.run and what follows it when the *)
(* call returns; the `finally` runs on every way out but the fallback      *)
ExecutePrimaryA ==
    /\ variant = "A" /\ pc = "primary"
    /\ LET nb == notebooks[i] IN
       \/ \E r \in CompletedProcs :
            /\ spawned' = Append(spawned, Spawn(nb, "primary", "", "exit", r.returncode))
            /\ UNCHANGED raised
            /\ IF ~NeedsFallback(r)
               THEN /\ ret' = PrimarySuccessA
                    /\ tempfiles' = Unlink(tempfiles, nb)
                    /\ pc' = "record"
                    /\ UNCHANGED first
               ELSE /\ first' = r
                    /\ pc' = "fallback"
                    /\ UNCHANGED << ret, tempfiles >>
       \/ \E e \in ExcTexts :
            /\ spawned' = Append(spawned, Spawn(nb, "primary", "", "raise", None))
            /\ raised' = Append(raised, Fault(nb, "primary", e))
            /\ ret' = ExceptionResultA(e)
            /\ tempfiles' = Unlink(tempfiles, nb)
            /\ pc' = "record"
            /\ UNCHANGED first
    /\ UNCHANGED << config, notebooks, i, failure_count, stopped, passed,
                    failed, skipped, errors, all_passed, passed_n, failed_n,
                    summary, saved, uncaught, exit_code >>

(* execute_notebook: the second subprocess.run, with kernel_name=python3 *)
ExecuteFallbackA ==
    /\ variant = "A" /\ pc = "fallback"
    /\ LET nb == notebooks[i] IN
       \/ \E r \in CompletedProcs :
            /\ spawned' = Append(spawned, Spawn(nb, "fallback", "python3", "exit", r.returncode))
            /\ ret' = FallbackResultA(first, r)
            /\ UNCHANGED raised
       \/ \E e \in ExcTexts :
            /\ spawned' = Append(spawned, Spawn(nb, "fallback", "python3", "raise", None))
            /\ raised' = Append(raised, Fault(nb, "fallback", e))
            /\ ret' = ExceptionResultA(e)
    /\ tempfiles' = Unlink(tempfiles, notebooks[i])
    /\ pc' = "record"
    /\ first' = NoProc
    /\ UNCHANGED << config, notebooks, i, failure_count, stopped, passed,
                    failed, skipped, errors, all_passed, passed_n, failed_n,
                    summary, saved, uncaught, exit_code >>

(* run_tests: the loop body after execute_notebook returned *)
RunTestsRecord ==
    /\ variant = "A" /\ pc = "record"
    /\ LET nb == notebooks[i] IN
       IF ret.ok
       THEN /\ passed' = Append(passed, nb)
            /\ i' = i + 1
            /\ UNCHANGED << failed, errors, failure_count, stopped >>
       ELSE /\ failed' = Append(failed, nb)
            /\ errors' = Put(errors, nb, ret.msg)
            /\ failure_count' = failure_count + 1
            /\ stopped' = ShouldStop(max_failures, failure_count + 1)
            /\ i' = IF ShouldStop(max_failures, failure_count + 1) THEN i ELSE i + 1
            /\ UNCHANGED passed
    /\ pc' = "loop"
    /\ ret' = NoRet
    /\ UNCHANGED << config, notebooks, skipped, all_passed, passed_n, failed_n,
                    tempfiles, spawned, raised, first, summary, saved, uncaught,
                    exit_code >>

(* run_tests: the loop ends (exhausted, or left by break): return *)
RunTestsReturn ==
    /\ variant = "A" /\ pc = "loop"
    /\ (stopped \/ i > Len(notebooks))
    /\ pc' = "summary"
    /\ UNCHANGED << config, notebooks, i, failure_count, stopped, passed,
                    failed, skipped, errors, all_passed, passed_n, failed_n,
                    tempfiles, spawned, raised, first, ret, summary, saved, uncaught,
                    exit_code >>

(* A: print_summary *)
PrintSummaryA ==
    /\ variant = "A" /\ pc = "summary"
    /\ summary' = [printed |-> TRUE, complete |-> TRUE,
                   total |-> Len(passed) + Len(failed) + Len(skipped),
                   passed |-> Len(passed), failed |-> Len(failed),
                   skipped |-> Len(skipped)]
    /\ pc' = IF save_requested THEN "save" ELSE "exit"
    /\ UNCHANGED << config, notebooks, i, failure_count, stopped, passed,
                    failed, skipped, errors, all_passed, passed_n, failed_n,
                    tempfiles, spawned, raised, first, ret, saved, uncaught, exit_code >>

(* A: save_results, called when --save-results is given *)
SaveResults ==
    /\ variant = "A" /\ pc = "save"
    /\ saved' = [written |-> TRUE, passed |-> passed, failed |-> failed,
                 skipped |-> skipped, errors |-> errors]
    /\ pc' = "exit"
    /\ UNCHANGED << config, notebooks, i, failure_count, stopped, passed,
                    failed, skipped, errors, all_passed, passed_n, failed_n,
                    tempfiles, spawned, raised, first, ret, summary, uncaught,
                    exit_code >>

(* A: main's `if results['failed']: sys.exit(1) else: sys.exit(0)` *)
ExitA ==
    /\ variant = "A" /\ pc = "exit"
    /\ exit_code' = IF failed # << >> THEN 1 ELSE 0
    /\ pc' = "done"
    /\ UNCHANGED << config, notebooks, i, failure_count, stopped, passed,
                    failed, skipped, errors, all_passed, passed_n, failed_n,
                    tempfiles, spawned, raised, first, ret, summary, saved, uncaught >>

(* ====================== runner B: test_directory ======================= *)

(* B: `error_msg = result.stderr or result.stdout` *)
StderrOrStdout(r) == IF r.stderr # "" THEN r.stderr ELSE r.stdout

(* B: the value execute_notebook returns when subprocess.run returned *)
CompletedResultB(r) ==
    IF r.returncode = 0
    THEN [ok |-> TRUE, msg |-> Empty]
    ELSE [ok |-> FALSE, msg |-> Msg("", StderrOrStdout(r), 0, NoProc, NoProc)]

(* A TimeoutExpired handler that reports the default of --timeout instead  *)
(* of self.timeout_seconds                                                 *)
TimeoutResultB_Default(T) ==
    [ok |-> FALSE,
     msg |-> Msg("Execution timed out after {} seconds", "", DefaultTimeout, NoProc, NoProc)]

(* B: `except subprocess.TimeoutExpired` of execute_notebook *)
TimeoutResultB(T) ==
    [ok |-> FALSE, msg |-> Msg("Execution timed out after {} seconds", "", T, NoProc, NoProc)]

(* B: `except timeout_decorator.TimeoutError` of execute_notebook_with_timeout *)
AlarmResultB(T) ==
    [ok |-> FALSE, msg |-> Msg("Notebook execution timed out after {} seconds", "", T, NoProc, NoProc)]

(* B: `except Exception as e` of execute_notebook *)
ExceptionResultB(e) ==
    [ok |-> FALSE, msg |-> Msg("Execution error: ", e, 0, NoProc, NoProc)]

(* B: the decorator's timer goes off while execute_notebook waits for the  *)
(* subprocess, so its TimeoutError is raised inside execute_notebook's own *)
(* try block. Which handler gets it depends on the exception's class,      *)
(* which the source does not fix: the `except Exception` of                *)
(* execute_notebook, or the `except timeout_decorator.TimeoutError` of     *)
(* execute_notebook_with_timeout.                                          *)
AlarmResultsB(T) == { AlarmResultB(T), ExceptionResultB("Timed Out") }

(* B: the temporary file after subprocess.run returned: os.unlink *)
CleanupCompletedB(files, t) == Unlink(files, t)

(* B: the temporary file after subprocess.run raised: no handler of        *)
(* execute_notebook unlinks it                                             *)
CleanupRaisedB(files, t) == files

(* B: main builds the tester and calls test_directory, which returns True  *)
(* at once when find_notebooks found nothing                               *)
MainB ==
    /\ variant = "B" /\ pc = "main"
    /\ notebooks' = find_notebooks_in(root_exists)
    /\ i' = 1
    /\ all_passed' = TRUE
    /\ pc' = IF find_notebooks_in(root_exists) = << >> THEN "summary" ELSE "loop"
    /\ UNCHANGED << config, failure_count, stopped, passed, failed, skipped,
                    errors, passed_n, failed_n, tempfiles, spawned, raised, first, ret,
                    summary, saved, uncaught, exit_code >>

(* B: test_notebook up to the call of execute_notebook_with_timeout *)
TestNotebookFormat ==
    /\ variant = "B" /\ pc = "loop" /\ i <= Len(notebooks)
    /\ LET nb == notebooks[i]
           v  == validate_notebook_format(tree[nb])
       IN  IF ~v.ok
           THEN /\ errors' = FormatErrors(errors, nb, v)
                /\ failed' = Append(failed, nb)
                /\ all_passed' = FALSE
                /\ i' = i + 1
                /\ UNCHANGED pc
           ELSE /\ errors' = FormatErrors(errors, nb, v)
                /\ pc' = "exec_begin"
                /\ UNCHANGED << failed, all_passed, i >>
    /\ UNCHANGED << config, notebooks, failure_count, stopped, passed, skipped,
                    passed_n, failed_n, tempfiles, spawned, raised, first, ret,
                    summary, saved, uncaught, exit_code >>

(* B: execute_notebook: tempfile.NamedTemporaryFile(delete=False) *)
ExecuteBeginB ==
    /\ variant = "B" /\ pc = "exec_begin"
    /\ \/ /\ tempfiles' = tempfiles \cup {notebooks[i]}
          /\ pc' = "primary"
          /\ UNCHANGED << ret, raised >>
       \/ \E e \in ExcTexts :
            /\ raised' = Append(raised, Fault(notebooks[i], "tempfile", e))
            /\ ret' = ExceptionResultB(e)
            /\ pc' = "record"
            /\ UNCHANGED tempfiles
    /\ UNCHANGED << config, notebooks, i, failure_count, stopped, passed,
                    failed, skipped, errors, all_passed, passed_n, failed_n,
                    spawned, first, summary, saved, uncaught, exit_code >>

(* B: execute_notebook: subprocess.run(cmd, timeout=self.timeout_seconds)  *)
(* and every way the call can end                                          *)
ExecutePrimaryB ==
    /\ variant = "B" /\ pc = "primary"
    /\ LET nb == notebooks[i] IN
       \/ \E r \in CompletedProcs :
            /\ spawned' = Append(spawned, Spawn(nb, "primary", "", "exit", r.returncode))
            /\ tempfiles' = CleanupCompletedB(tempfiles, nb)
            /\ ret' = CompletedResultB(r)
            /\ UNCHANGED raised
       \/ /\ spawned' = Append(spawned, Spawn(nb, "primary", "", "timeout", None))
          /\ tempfiles' = CleanupRaisedB(tempfiles, nb)
          /\ ret' = TimeoutResultB(timeout_seconds)
          /\ UNCHANGED raised
       \/ /\ has_timeout_decorator /\ timeout_seconds > 0
          /\ spawned' = Append(spawned, Spawn(nb, "primary", "", "alarm", None))
          /\ tempfiles' = CleanupRaisedB(tempfiles, nb)
          /\ ret' \in AlarmResultsB(timeout_seconds)
          /\ UNCHANGED raised
       \/ \E e \in ExcTexts :
            /\ spawned' = Append(spawned, Spawn(nb, "primary", "", "raise", None))
            /\ raised' = Append(raised, Fault(nb, "primary", e))
            /\ tempfiles' = CleanupRaisedB(tempfiles, nb)
            /\ ret' = ExceptionResultB(e)
    /\ pc' = "record"
    /\ UNCHANGED << config, notebooks, i, failure_count, stopped, passed,
                    failed, skipped, errors, all_passed, passed_n, failed_n,
                    first, summary, saved, uncaught, exit_code >>

(* B: test_notebook after execute_notebook_with_timeout returned, and the  *)
(* loop body of test_directory                                             *)
TestNotebookRecord ==
    /\ variant = "B" /\ pc = "record"
    /\ LET nb == notebooks[i] IN
       IF ret.ok
       THEN /\ passed' = Append(passed, nb)
            /\ UNCHANGED << failed, errors, all_passed >>
       ELSE /\ failed' = Append(failed, nb)
            /\ errors' = Put(errors, nb, ret.msg)
            /\ all_passed' = FALSE
            /\ UNCHANGED passed
    /\ i' = i + 1
    /\ pc' = "loop"
    /\ ret' = NoRet
    /\ UNCHANGED << config, notebooks, failure_count, stopped, skipped,
                    passed_n, failed_n, tempfiles, spawned, raised, first, summary,
                    saved, uncaught, exit_code >>

(* B: test_directory returns all_passed *)
TestDirectoryReturn ==
    /\ variant = "B" /\ pc = "loop" /\ i > Len(notebooks)
    /\ pc' = "summary"
    /\ UNCHANGED << config, notebooks, i, failure_count, stopped, passed,
                    failed, skipped, errors, all_passed, passed_n, failed_n,
                    tempfiles, spawned, raised, first, ret, summary, saved, uncaught,
                    exit_code >>

(* B: print_summary; its last line divides by total, and main has no       *)
(* handler: with total = 0 the ZeroDivisionError ends the process with     *)
(* status 1                                                                *)
PrintSummaryB ==
    /\ variant = "B" /\ pc = "summary"
    /\ LET total == Len(passed) + Len(failed) IN
       /\ summary' = [printed |-> TRUE, complete |-> (total # 0),
                      total |-> total, passed |-> Len(passed),
                      failed |-> Len(failed), skipped |-> 0]
       /\ IF total = 0
          THEN /\ uncaught' = "ZeroDivisionError"
               /\ exit_code' = 1
               /\ pc' = "done"
          ELSE /\ pc' = "exit"
               /\ UNCHANGED << uncaught, exit_code >>
    /\ UNCHANGED << config, notebooks, i, failure_count, stopped, passed,
                    failed, skipped, errors, all_passed, passed_n, failed_n,
                    tempfiles, spawned, raised, first, ret, saved >>

(* B: main's sys.exit(0 if success else 1) *)
ExitB ==
    /\ variant = "B" /\ pc = "exit"
    /\ exit_code' = IF all_passed THEN 0 ELSE 1
    /\ pc' = "done"
    /\ UNCHANGED << config, notebooks, i, failure_count, stopped, passed,
                    failed, skipped, errors, all_passed, passed_n, failed_n,
                    tempfiles, spawned, raised, first, ret, summary, saved, uncaught >>

(* ======================= runner S: simple_test ========================= *)

(* S: what test_notebook prints and returns for a way subprocess.run ends *)
CompletedResultS(r) ==
    IF r.returncode = 0
    THEN [ok |-> TRUE, msg |-> Msg("PASSED", "", 0, NoProc, NoProc)]
    ELSE [ok |-> FALSE, msg |-> Msg("FAILED Error: ", r.stderr, 0, NoProc, NoProc)]

TimeoutResultS == [ok |-> FALSE, msg |-> Msg("TIMEOUT", "", 0, NoProc, NoProc)]

ExceptionResultS(e) == [ok |-> FALSE, msg |-> Msg("ERROR: ", e, 0, NoProc, NoProc)]

(* S: main up to the loop; with no notebooks it returns, status 0 *)
MainS ==
    /\ variant = "S" /\ pc = "main"
    /\ notebooks' = find_notebooks_in(root_exists)
    /\ i' = 1
    /\ passed_n' = 0
    /\ failed_n' = 0
    /\ IF find_notebooks_in(root_exists) = << >>
       THEN /\ exit_code' = 0
            /\ pc' = "done"
       ELSE /\ pc' = "loop"
            /\ UNCHANGED exit_code
    /\ UNCHANGED << config, failure_count, stopped, passed, failed, skipped,
                    errors, all_passed, tempfiles, spawned, raised, first, ret,
                    summary, saved, uncaught >>

(* S: test_notebook's JSON check; a False return is counted by main *)
TestNotebookJson ==
    /\ variant = "S" /\ pc = "loop" /\ i <= Len(notebooks)
    /\ LET v == json_check(tree[notebooks[i]]) IN
       IF ~v.ok
       THEN /\ ret' = [ok |-> FALSE, msg |-> v.msg]
            /\ failed_n' = failed_n + 1
            /\ i' = i + 1
            /\ UNCHANGED pc
       ELSE /\ pc' = "primary"
            /\ UNCHANGED << ret, failed_n, i >>
    /\ UNCHANGED << config, notebooks, failure_count, stopped, passed, failed,
                    skipped, errors, all_passed, passed_n, tempfiles, spawned, raised,
                    first, summary, saved, uncaught, exit_code >>

(* S: test_notebook's subprocess.run(cmd, timeout=600) and main's count *)
ExecuteS ==
    /\ variant = "S" /\ pc = "primary"
    /\ LET nb == notebooks[i] IN
       \/ \E r \in CompletedProcs :
            /\ spawned' = Append(spawned, Spawn(nb, "primary", "", "exit", r.returncode))
            /\ ret' = CompletedResultS(r)
            /\ UNCHANGED raised
       \/ /\ spawned' = Append(spawned, Spawn(nb, "primary", "", "timeout", None))
          /\ ret' = TimeoutResultS
          /\ UNCHANGED raised
       \/ \E e \in ExcTexts :
            /\ spawned' = Append(spawned, Spawn(nb, "primary", "", "raise", None))
            /\ raised' = Append(raised, Fault(nb, "primary", e))
            /\ ret' = ExceptionResultS(e)
    /\ passed_n' = IF ret'.ok THEN passed_n + 1 ELSE passed_n
    /\ failed_n' = IF ret'.ok THEN failed_n ELSE failed_n + 1
    /\ i' = i + 1
    /\ pc' = "loop"
    /\ UNCHANGED << config, notebooks, failure_count, stopped, passed, failed,
                    skipped, errors, all_passed, tempfiles, first, summary,
                    saved, uncaught, exit_code >>

(* S: main after the loop: the results line and the exit status *)
ExitS ==
    /\ variant = "S" /\ pc = "loop" /\ i > Len(notebooks)
    /\ summary' = [printed |-> TRUE, complete |-> TRUE,
                   total |-> passed_n + failed_n, passed |-> passed_n,
                   failed |-> failed_n, skipped |-> 0]
    /\ exit_code' = IF failed_n > 0 THEN 1 ELSE 0
    /\ pc' = "done"
    /\ UNCHANGED << config, notebooks, i, failure_count, stopped, passed,
                    failed, skipped, errors, all_passed, passed_n, failed_n,
                    tempfiles, spawned, raised, first, ret, saved, uncaught >>

Next ==
    \/ MainA
    \/ RunTestsStructure
    \/ ExecuteBeginA
    \/ ExecutePrimaryA
    \/ ExecuteFallbackA
    \/ RunTestsRecord
    \/ RunTestsReturn
    \/ PrintSummaryA
    \/ SaveResults
    \/ ExitA
    \/ MainB
    \/ TestNotebookFormat
    \/ ExecuteBeginB
    \/ ExecutePrimaryB
    \/ TestNotebookRecord
    \/ TestDirectoryReturn
    \/ PrintSummaryB
    \/ ExitB
    \/ MainS
    \/ TestNotebookJson
    \/ ExecuteS
    \/ ExitS

Spec == Init /\ [][Next]_vars

(* ============== an operator interruption during the loop =============== *)

(* the exit status the shell sees when KeyboardInterrupt leaves main        *)
(* uncaught: the interpreter ends the process on SIGINT                     *)
SigintStatus == 130

(* the positions of a run between the first and the last notebook *)
InLoop ==
    /\ pc \in {"loop", "exec_begin", "primary", "fallback", "record"}
    /\ i <= Len(notebooks)

(* A: KeyboardInterrupt raised inside run_tests. No `except Exception` on  *)
(* the way catches it; execute_notebook's `finally` unlinks the temporary  *)
(* file; main's `except KeyboardInterrupt` prints the summary and exits 1  *)
InterruptA ==
    /\ variant = "A" /\ InLoop /\ ~interrupted
    /\ interrupted' = TRUE
    /\ tempfiles' = IF pc \in {"primary", "fallback"}
                    THEN Unlink(tempfiles, notebooks[i]) ELSE tempfiles
    /\ summary' = [printed |-> TRUE, complete |-> TRUE,
                   total |-> Len(passed) + Len(failed) + Len(skipped),
                   passed |-> Len(passed), failed |-> Len(failed),
                   skipped |-> Len(skipped)]
    /\ exit_code' = 1
    /\ pc' = "done"
    /\ UNCHANGED << settings, listing, found, document, outcome, notebooks, i,
                    failure_count, stopped, passed, failed, skipped, errors,
                    all_passed, passed_n, failed_n, spawned, raised, first,
                    ret, saved, uncaught >>

(* B: main has no handler and no `except` on the way catches              *)
(* KeyboardInterrupt, so it leaves main before tester.print_summary() and  *)
(* before the os.unlink that follows subprocess.run                        *)
InterruptB ==
    /\ variant = "B" /\ InLoop /\ ~interrupted
    /\ interrupted' = TRUE
    /\ uncaught' = "KeyboardInterrupt"
    /\ exit_code' = SigintStatus
    /\ pc' = "done"
    /\ UNCHANGED << settings, listing, found, document, outcome, notebooks, i,
                    failure_count, stopped, passed, failed, skipped, errors,
                    all_passed, passed_n, failed_n, tempfiles, spawned, raised,
                    first, ret, summary, saved >>

(* S: main has no handler either; the "Results:" line is never printed *)
InterruptS ==
    /\ variant = "S" /\ InLoop /\ ~interrupted
    /\ interrupted' = TRUE
    /\ uncaught' = "KeyboardInterrupt"
    /\ exit_code' = SigintStatus
    /\ pc' = "done"
    /\ UNCHANGED << settings, listing, found, document, outcome, notebooks, i,
                    failure_count, stopped, passed, failed, skipped, errors,
                    all_passed, passed_n, failed_n, tempfiles, spawned, raised,
                    first, ret, summary, saved >>

(* a corpus of at most two notebooks is enough to place                    *)
(* the interruption before, between and after recorded results             *)
InitInterrupt ==
    /\ Init
    /\ Len(tree) <= 2
    /\ max_failures \in {None, 1}

NextInterrupt ==
    \/ Next
    \/ InterruptA
    \/ InterruptB
    \/ InterruptS

SpecInterrupt == InitInterrupt /\ [][NextInterrupt]_vars

(* ============== find_notebooks over a directory tree =================== *)
(* A path is the sequence of its components, the root first; a component   *)
(* is a sequence of symbols. A symbol is the character code of a single    *)
(* character or of the first character of a fixed piece of text:           *)
(*   45 "-"    46 ".ipynb"    47 "/"    95 "_checkpoints"                  *)
(*   97 "a"    114 "r"                                                     *)
(* No piece starts with the first character of another, so comparing       *)
(* sequences of symbols compares the texts they stand for.                 *)

MaxFiles == 2          \* entries below the root
MaxDirs == 1           \* directories between the root and an entry

Sep == << 47 >>
Suffix == << 46 >>
(* '.ipynb_checkpoints' *)
CheckpointSegment == << 46, 95 >>

RootNames == { << 114 >>, << 114, 46, 95 >> }
DirNames == { << 97 >>, CheckpointSegment }
FileNames == { << 97, 46 >>, << 97, 45, 46 >>, << 46, 95, 46 >>, << 97 >> }

(* the paths of the entries a tree below `root` can hold *)
PathsBelow(root) ==
    { << root >> \o ds \o << f >> :
        ds \in UNION { [1..n -> DirNames] : n \in 0..MaxDirs },
        f \in FileNames }

(* the trees of at most MaxFiles entries *)
Trees(root) ==
    UNION { { { f[j] : j \in 1..n } : f \in [1..n -> PathsBelow(root)] } :
            n \in 0..MaxFiles }

(* str(path) *)
RECURSIVE Str(_)
Str(p) == IF Len(p) = 1 THEN p[1] ELSE p[1] \o Sep \o Str(Tail(p))

(* s < t for two str values *)
RECURSIVE StrLess(_, _)
StrLess(s, t) ==
    IF s = << >> THEN t # << >>
    ELSE IF t = << >> THEN FALSE
    ELSE IF s[1] # t[1] THEN s[1] < t[1]
    ELSE StrLess(Tail(s), Tail(t))

(* p < q for two Path objects: pathlib compares the lists of components *)
RECURSIVE PathLess(_, _)
PathLess(p, q) ==
    IF p = << >> THEN q # << >>
    ELSE IF q = << >> THEN FALSE
    ELSE IF p[1] # q[1] THEN StrLess(p[1], q[1])
    ELSE PathLess(Tail(p), Tail(q))

(* A sort that orders the paths by str(path) *)
RECURSIVE Sorted_ByStr(_)
Sorted_ByStr(S) ==
    IF S = {} THEN << >>
    ELSE LET m == CHOOSE x \in S : \A y \in S \ {x} : StrLess(Str(x), Str(y))
         IN  << m >> \o Sorted_ByStr(S \ {m})

(* sorted(notebooks) *)
RECURSIVE Sorted(_)
Sorted(S) ==
    IF S = {} THEN << >>
    ELSE LET m == CHOOSE x \in S : \A y \in S \ {x} : PathLess(x, y)
         IN  << m >> \o Sorted(S \ {m})

(* sub in s *)
Contains(s, sub) ==
    \E k \in 1..(Len(s) - Len(sub) + 1) : SubSeq(s, k, k + Len(sub) - 1) = sub

EndsWith(s, sub) ==
    Len(s) >= Len(sub) /\ SubSeq(s, Len(s) - Len(sub) + 1, Len(s)) = sub

(* A filter that lets every path through *)
IsCheckpoint_Never(p) == FALSE

(* '.ipynb_checkpoints' in str(notebook) *)
IsCheckpoint(p) == Contains(Str(p), CheckpointSegment)

(* root.glob('**/*.ipynb'): the entries at any depth whose name ends in    *)
(* .ipynb                                                                  *)
GlobRecursive(T) == { p \in T : EndsWith(p[Len(p)], Suffix) }

(* notebook_dir.glob('*.ipynb'): the entries of the directory itself *)
GlobFlat(T) == { p \in T : Len(p) = 2 /\ EndsWith(p[2], Suffix) }

(* A: NotebookTester.find_notebooks() *)
find_notebooks_A(T) == Sorted({ p \in GlobRecursive(T) : ~IsCheckpoint(p) })

(* B: NotebookTester.find_notebooks(directory) *)
find_notebooks_B(exists, T) ==
    IF ~exists THEN << >>
    ELSE Sorted({ p \in GlobFlat(T) : ~IsCheckpoint(p) })

(* S: simple_test.find_notebooks(directory) *)
find_notebooks_S(exists, T) ==
    IF ~exists THEN << >>
    ELSE Sorted({ p \in GlobFlat(T) : ~IsCheckpoint(p) })

InitDiscovery ==
    /\ variant \in Variants
    /\ root_exists \in BOOLEAN
    /\ listing \in (IF root_exists THEN UNION { Trees(r) : r \in RootNames }
                    ELSE { {} })
    /\ tree = << >>
    /\ execute_notebooks = TRUE
    /\ max_failures = None
    /\ save_requested = FALSE
    /\ timeout_seconds = DefaultTimeout
    /\ has_timeout_decorator = FALSE
    /\ Fresh
    /\ found = << >>
    /\ document = Document("valid")
    /\ outcome = Valid

DiscoverA ==
    /\ variant = "A" /\ pc = "main"
    /\ found' = find_notebooks_A(listing)
    /\ pc' = "done"
    /\ UNCHANGED << settings, interrupted, listing, document, outcome,
                    notebooks, i, failure_count, stopped, passed, failed,
                    skipped, errors, all_passed, passed_n, failed_n, tempfiles,
                    spawned, raised, first, ret, summary, saved, uncaught,
                    exit_code >>

DiscoverB ==
    /\ variant = "B" /\ pc = "main"
    /\ found' = find_notebooks_B(root_exists, listing)
    /\ pc' = "done"
    /\ UNCHANGED << settings, interrupted, listing, document, outcome,
                    notebooks, i, failure_count, stopped, passed, failed,
                    skipped, errors, all_passed, passed_n, failed_n, tempfiles,
                    spawned, raised, first, ret, summary, saved, uncaught,
                    exit_code >>

DiscoverS ==
    /\ variant = "S" /\ pc = "main"
    /\ found' = find_notebooks_S(root_exists, listing)
    /\ pc' = "done"
    /\ UNCHANGED << settings, interrupted, listing, document, outcome,
                    notebooks, i, failure_count, stopped, passed, failed,
                    skipped, errors, all_passed, passed_n, failed_n, tempfiles,
                    spawned, raised, first, ret, summary, saved, uncaught,
                    exit_code >>

NextDiscovery ==
    \/ DiscoverA
    \/ DiscoverB
    \/ DiscoverS

SpecDiscovery == InitDiscovery /\ [][NextDiscovery]_vars

(* ================ a validator called on one notebook =================== *)

(* the path of the notebook handed to the validator *)
ValidatedPath == 1

InitValidator ==
    /\ variant \in {"A", "B"}
    /\ document \in Documents
    /\ root_exists = TRUE
    /\ tree = << >>
    /\ execute_notebooks = TRUE
    /\ max_failures = None
    /\ save_requested = FALSE
    /\ timeout_seconds = DefaultTimeout
    /\ has_timeout_decorator = FALSE
    /\ Fresh
    /\ listing = {}
    /\ found = << >>
    /\ outcome = Valid

(* A: tester.test_notebook_structure(path) *)
ValidateA ==
    /\ variant = "A" /\ pc = "main"
    /\ outcome' = notebook_structure(document)
    /\ pc' = "done"
    /\ UNCHANGED << settings, interrupted, listing, found, document,
                    notebooks, i, failure_count, stopped, passed, failed,
                    skipped, errors, all_passed, passed_n, failed_n, tempfiles,
                    spawned, raised, first, ret, summary, saved, uncaught,
                    exit_code >>

(* B: tester.validate_notebook_format(path) *)
ValidateB ==
    /\ variant = "B" /\ pc = "main"
    /\ outcome' = notebook_format(document)
    /\ errors' = FormatErrors(errors, ValidatedPath, Kept(notebook_format(document)))
    /\ pc' = "done"
    /\ UNCHANGED << settings, interrupted, listing, found, document,
                    notebooks, i, failure_count, stopped, passed, failed,
                    skipped, all_passed, passed_n, failed_n, tempfiles,
                    spawned, raised, first, ret, summary, saved, uncaught,
                    exit_code >>

NextValidator ==
    \/ ValidateA
    \/ ValidateB

SpecValidator == InitValidator /\ [][NextValidator]_vars

(* ======= test_notebook_structure on files of every shape =============== *)

InitTotal ==
    /\ variant = "A"
    /\ document \in Documents \cup MalformedDocuments
    /\ root_exists = TRUE
    /\ tree = << >>
    /\ execute_notebooks = TRUE
    /\ max_failures = None
    /\ save_requested = FALSE
    /\ timeout_seconds = DefaultTimeout
    /\ has_timeout_decorator = FALSE
    /\ Fresh
    /\ listing = {}
    /\ found = << >>
    /\ outcome = Valid

NextTotal == ValidateA

SpecTotal == InitTotal /\ [][NextTotal]_vars

(* ============ runner A under every --max-failures value ================ *)

(* --max-failures is parsed with type=int and no range check: a negative   *)
(* number is taken as it is                                                *)
NegativeArg == -2

InitThreshold ==
    /\ variant = "A"
    /\ root_exists \in BOOLEAN
    /\ tree \in (IF root_exists THEN Corpora ELSE { << >> })
    /\ execute_notebooks \in BOOLEAN
    /\ max_failures \in {None, NegativeArg} \cup (0..MaxFailuresArg)
    /\ save_requested \in BOOLEAN
    /\ timeout_seconds = DefaultTimeout
    /\ has_timeout_decorator = FALSE
    /\ Fresh
    /\ NoAside

NextThreshold ==
    \/ MainA
    \/ RunTestsStructure
    \/ ExecuteBeginA
    \/ ExecutePrimaryA
    \/ ExecuteFallbackA
    \/ RunTestsRecord
    \/ RunTestsReturn
    \/ PrintSummaryA
    \/ SaveResults
    \/ ExitA

SpecThreshold == InitThreshold /\ [][NextThreshold]_vars

(* ============================== claims ================================= *)

Count(seq, x) == Cardinality({ k \in DOMAIN seq : seq[k] = x })

(* position of a discovered path in the sequence find_notebooks returned *)
Pos(nb) == CHOOSE k \in DOMAIN notebooks : notebooks[k] = nb

(* the loop is done with the k-th notebook *)
Processed(k) == k < i \/ (stopped /\ k = i)

(* the control thread has left the loop over the notebooks *)
AfterLoop == pc \in {"summary", "save", "exit", "done"}

SpawnsOf(nb) == { j \in DOMAIN spawned : spawned[j].nb = nb }

(* the verdict of the validator the running runner applies *)
StructureValid(doc) ==
    CASE variant = "A" -> test_notebook_structure(doc).ok
      [] variant = "B" -> validate_notebook_format(doc).ok
      [] OTHER         -> json_check(doc).ok

(* C1: a notebook whose structure validation returns invalid is never      *)
(* handed to a subprocess, and once the loop is done with it it is         *)
(* recorded as Failed (runner S, which keeps counters only, has counted    *)
(* it as failed).                                                          *)
C1_InvalidNeverExecuted ==
    \A k \in DOMAIN notebooks :
        LET nb == notebooks[k] IN
        ~StructureValid(tree[nb]) =>
            /\ SpawnsOf(nb) = {}
            /\ Processed(k) =>
                 IF variant = "S"
                 THEN failed_n >= Cardinality({ j \in 1..k : ~StructureValid(tree[notebooks[j]]) })
                 ELSE Count(failed, nb) = 1 /\ Count(passed, nb) = 0

(* C1 witness: in a run that does spawn subprocesses, an invalid notebook  *)
(* has been processed and recorded as Failed.                              *)
C1_Witness ==
    /\ spawned # << >>
    /\ \E k \in DOMAIN notebooks :
          /\ ~StructureValid(tree[notebooks[k]])
          /\ Processed(k)
          /\ Count(failed, notebooks[k]) = 1

(* C2: once the loop has been left, every discovered path is in exactly    *)
(* one of passed, failed, skipped, exactly once.                           *)
C2_EveryPathRecordedOnce ==
    (variant \in {"A", "B"} /\ AfterLoop) =>
        \A k \in DOMAIN notebooks :
            Count(passed, notebooks[k]) + Count(failed, notebooks[k])
              + Count(skipped, notebooks[k]) = 1

(* C3: when the max_failures threshold stops the run, every notebook not   *)
(* yet processed is recorded as Skipped and the summary counts them.       *)
C3_StopRecordsSkipped ==
    (stopped /\ AfterLoop) =>
        /\ \A k \in (i + 1)..Len(notebooks) : Count(skipped, notebooks[k]) = 1
        /\ summary.printed => summary.skipped = Len(notebooks) - i

AnyFailed == IF variant = "S" THEN failed_n > 0 ELSE failed # << >>

(* C4: the exit status of a run over an existing directory is nonzero if   *)
(* and only if at least one outcome is Failed.                             *)
C4_ExitNonzeroIffFailed ==
    (exit_code # None /\ root_exists) => ((exit_code # 0) <=> AnyFailed)

(* C5: with an empty corpus the run ends normally, the summary step (where *)
(* the runner has one) included, and the exit status is 0.                 *)
C5_EmptyCorpusExitsZero ==
    (pc = "done" /\ notebooks = << >> /\ (variant = "A" => root_exists)) =>
        /\ exit_code = 0
        /\ uncaught = ""
        /\ variant # "S" => summary.complete

(* C6: per notebook there are at most two subprocess calls; a fallback     *)
(* call (the one that pins kernel_name) comes right after the primary call *)
(* of the same notebook has exited non-zero, and at most once; a primary   *)
(* call that exits 0 is the notebook's only call.                          *)
C6_FallbackOnlyAfterFailedPrimary ==
    \A j \in DOMAIN spawned :
        LET e == spawned[j] IN
        /\ Cardinality(SpawnsOf(e.nb)) <= 2
        /\ Cardinality({ m \in SpawnsOf(e.nb) : spawned[m].attempt = e.attempt }) = 1
        /\ e.attempt = "primary" => e.kernel_name = ""
        /\ e.attempt = "fallback" =>
              /\ e.kernel_name = "python3"
              /\ j > 1
              /\ spawned[j - 1].nb = e.nb
              /\ spawned[j - 1].attempt = "primary"
              /\ spawned[j - 1].how = "exit"
              /\ spawned[j - 1].returncode # 0
        /\ (e.attempt = "primary" /\ e.how = "exit" /\ e.returncode = 0) =>
              SpawnsOf(e.nb) = {j}

(* C6 witness: one notebook got a fallback call, another one passed on its *)
(* primary call alone.                                                     *)
C6_Witness ==
    /\ \E j \in DOMAIN spawned : spawned[j].attempt = "fallback"
    /\ \E j \in DOMAIN spawned :
          /\ spawned[j].attempt = "primary"
          /\ spawned[j].returncode = 0
          /\ Count(passed, spawned[j].nb) = 1

(* the wall-clock timeout of subprocess.run elapsed *)
TimedOut(e) == e.attempt = "primary" /\ e.how = "timeout"

C8_FallbackPassKeepsDiagnostic ==
    \A j \in DOMAIN spawned :
        LET e == spawned[j] IN
        (e.attempt = "fallback" /\ e.how = "exit" /\ e.returncode = 0
           /\ Processed(Pos(e.nb))) =>
            /\ Count(passed, e.nb) = 1
            /\ Count(failed, e.nb) = 0
            /\ e.nb \in DOMAIN errors
            /\ errors[e.nb].kind = "Succeeded with kernel override"

(* C9: outside a call of execute_notebook no temporary output file exists. *)
C9_TempFileRemoved ==
    pc \notin {"primary", "fallback"} => tempfiles = {}

ExceptionKinds == { "Exception during execution: ", "Execution error: ", "ERROR: " }

(* C10: an exception raised while an execution is orchestrated leaves no   *)
(* exception uncaught; execute_notebook returns for it a failure whose     *)
(* text holds str(e), the notebook is recorded as Failed with that text    *)
(* (S: printed and counted), and the run ends with every notebook          *)
(* processed unless the max_failures threshold has stopped it.             *)
C10_ExceptionBecomesFailure ==
    /\ raised # << >> => uncaught = ""
    /\ \A j \in DOMAIN raised :
          LET f == raised[j]
              k == Pos(f.nb)
          IN  /\ (pc = "record" /\ k = i) =>
                    /\ ~ret.ok
                    /\ ret.msg.kind \in ExceptionKinds
                    /\ ret.msg.text = f.exc
              /\ (variant = "S" /\ k = i - 1) =>
                    /\ ~ret.ok
                    /\ ret.msg.kind \in ExceptionKinds
                    /\ ret.msg.text = f.exc
                    /\ failed_n >= 1
              /\ (variant # "S" /\ Processed(k)) =>
                    /\ Count(failed, f.nb) = 1
                    /\ Count(passed, f.nb) = 0
                    /\ f.nb \in DOMAIN errors
                    /\ errors[f.nb].kind \in ExceptionKinds
                    /\ errors[f.nb].text = f.exc
    /\ (pc = "done" /\ raised # << >>) =>
          \/ stopped
          \/ IF variant = "S"
             THEN passed_n + failed_n = Len(notebooks)
             ELSE \A k \in DOMAIN notebooks :
                    Count(passed, notebooks[k]) + Count(failed, notebooks[k]) = 1

(* C10 witness: runner A has ended; a spawn failure made one notebook      *)
(* Failed and a notebook after it was still executed and passed.           *)
C10_Witness ==
    /\ pc = "done" /\ variant = "A" /\ ~stopped
    /\ \E j \in DOMAIN raised :
          /\ raised[j].at = "primary"
          /\ Count(failed, raised[j].nb) = 1
          /\ \E k \in DOMAIN notebooks :
                /\ k > Pos(raised[j].nb)
                /\ Count(passed, notebooks[k]) = 1
                /\ SpawnsOf(notebooks[k]) # {}

(* C11: when a KeyboardInterrupt arrives during the per-notebook loop, the *)
(* summary of the results recorded so far is printed before the process    *)
(* exits, and those results are what the summary shows.                    *)
C11_InterruptPrintsSummary ==
    (pc = "done" /\ interrupted) =>
        /\ summary.printed
        /\ summary.passed = (IF variant = "S" THEN passed_n ELSE Len(passed))
        /\ summary.failed = (IF variant = "S" THEN failed_n ELSE Len(failed))

(* C12: in every subprocess invocation that has an outer wall-clock        *)
(* timeout, the per-cell timeout handed to nbconvert is strictly smaller   *)
(* than that outer timeout.                                                *)
C12_InnerBelowOuter ==
    \A k \in DOMAIN spawned :
        spawned[k].timeout # None =>
            spawned[k].cell_timeout < spawned[k].timeout

NoDuplicates(seq) == \A j, k \in DOMAIN seq : seq[j] = seq[k] => j = k

(* C13 as stated: the sequence find_notebooks returns has no duplicate and *)
(* is ascending in the order of the paths' strings.                        *)
C13_SortedByPathString ==
    pc = "done" =>
        /\ NoDuplicates(found)
        /\ \A j, k \in DOMAIN found :
               j < k => StrLess(Str(found[j]), Str(found[k]))

(* C13: the sequence find_notebooks returns has no duplicate and is        *)
(* ascending in the order of Path objects, which compares the paths        *)
(* component by component; for the discovery of a single directory         *)
(* (runners B and S) that is the order of the paths' strings.              *)
C13_SortedByComponents ==
    pc = "done" =>
        /\ NoDuplicates(found)
        /\ \A j, k \in DOMAIN found :
               j < k =>
                   /\ PathLess(found[j], found[k])
                   /\ variant # "A" => StrLess(Str(found[j]), Str(found[k]))

C13_Witness ==
    /\ pc = "done" /\ variant = "A"
    /\ Len(found) = 2
    /\ Len(found[1]) # Len(found[2])
    /\ StrLess(Str(found[2]), Str(found[1]))

(* C14: find_notebooks never returns a path whose string contains          *)
(* '.ipynb_checkpoints'.                                                   *)
C14_NoCheckpointPath ==
    pc = "done" =>
        \A k \in DOMAIN found : ~Contains(Str(found[k]), CheckpointSegment)

C14_Witness ==
    /\ pc = "done"
    /\ found # << >>
    /\ \E p \in listing :
           /\ EndsWith(p[Len(p)], Suffix)
           /\ Contains(Str(p), CheckpointSegment)

(* C15: when the root directory does not exist, discovery yields the empty *)
(* sequence and the run is not failed because of it: it ends as a run over *)
(* an empty corpus does, with exit status 0 and no error.                  *)
C15_MissingRootNotFatal ==
    (pc = "done" /\ ~root_exists) =>
        /\ notebooks = << >>
        /\ exit_code = 0
        /\ uncaught = ""

(* C16: runner A, a corpus of the one notebook that lacks `metadata`: the  *)
(* notebook is recorded Failed with a reason that names the key, no        *)
(* subprocess is spawned and the exit status is 1.                         *)
C16_MissingMetadataFails ==
    (variant = "A" /\ tree = << "nometadata" >> /\ pc = "done") =>
        /\ failed = << 1 >>
        /\ passed = << >>
        /\ 1 \in DOMAIN errors
        /\ errors[1].prefix = "Structure error: "
        /\ errors[1].kind = "Missing required basic keys: "
        /\ errors[1].text = "['metadata']"
        /\ spawned = << >>
        /\ exit_code = 1

C16_Witness ==
    /\ variant = "A" /\ tree = << "nometadata" >> /\ pc = "done"
    /\ execute_notebooks
    /\ failed = << 1 >>

(* C18: test_notebook_structure reports a document of nbformat 4 or higher *)
(* without `cells` as invalid, with a reason that names `cells` when the   *)
(* basic keys are there; it reports a document of nbformat 3 or lower that *)
(* has `metadata` and an empty `worksheets` list as valid.                 *)
C18_CellsAndWorksheets ==
    (variant = "A" /\ pc = "done" /\ document.file = "json"
        /\ document.has_nbformat) =>
        /\ (document.nbformat >= 4 /\ ~document.has_cells) =>
               /\ ~outcome.ok
               /\ document.has_metadata =>
                      /\ outcome.reason = "Missing required keys: "
                      /\ outcome.text = "['cells']"
        /\ (document.nbformat <= 3 /\ document.has_metadata
               /\ document.has_worksheets /\ document.worksheets_is_list
               /\ document.worksheets = << >>) =>
               outcome.ok

C18_Witness ==
    /\ variant = "A" /\ pc = "done" /\ document.file = "json"
    /\ document.has_nbformat /\ document.has_metadata
    /\ document.nbformat = 5 /\ ~document.has_cells
    /\ ~outcome.ok

(* the step that is the call of the validator *)
ValidatorCall == pc = "main" /\ pc' = "done"

(* C19 as stated: a call of the validator changes nothing in passed,       *)
(* failed, skipped and errors.                                             *)
C19_ValidatorChangesNothing ==
    [][ValidatorCall => UNCHANGED << passed, failed, skipped, errors >>]_vars

(* C19: a call of the validator changes nothing in passed, failed and      *)
(* skipped; test_notebook_structure changes nothing in errors either,      *)
(* while validate_notebook_format stores the reason under the path in      *)
(* errors when it returns False, and leaves errors alone when it returns   *)
(* True.                                                                   *)
C19_ValidatorWritesOnlyErrors ==
    [][ValidatorCall =>
          /\ UNCHANGED << passed, failed, skipped >>
          /\ (variant = "A" \/ outcome'.ok) => UNCHANGED errors
          /\ (variant = "B" /\ ~outcome'.ok) =>
                 /\ DOMAIN errors' = DOMAIN errors \cup {ValidatedPath}
                 /\ errors'[ValidatedPath].kind = outcome'.reason
                 /\ \A k \in DOMAIN errors \ {ValidatedPath} :
                        errors'[k] = errors[k]]_vars

C19_Witness ==
    /\ variant = "B" /\ pc = "done"
    /\ ~outcome.ok
    /\ ValidatedPath \in DOMAIN errors
    /\ failed = << >>

(* C17: runner A with --max-failures 1 and three notebooks of which the    *)
(* first two fail structural validation: once the loop has been left the   *)
(* first two are recorded Failed and the third Skipped, and the summary    *)
(* shows 2 failed and 1 skipped.                                           *)
C17_StopsAfterSecondFailure ==
    (variant = "A" /\ max_failures = 1 /\ Len(tree) = 3
        /\ ~StructureValid(tree[1]) /\ ~StructureValid(tree[2])
        /\ AfterLoop) =>
        /\ failed = << 1, 2 >>
        /\ skipped = << 3 >>
        /\ summary.printed => (summary.failed = 2 /\ summary.skipped = 1)

(* t is s with zero or more elements appended *)
Extends(s, t) == Len(s) <= Len(t) /\ SubSeq(t, 1, Len(s)) = s

ProcOf(rc) == CHOOSE r \in CompletedProcs : r.returncode = rc

(* C21: when execute_notebook has returned after a primary and a fallback  *)
(* attempt that both exited non-zero, it has returned a failure whose text *)
(* holds the exit status, stdout and stderr of the first attempt and those *)
(* of the second attempt, each in its own place.                           *)
C21_BothAttemptsReported ==
    (variant = "A" /\ pc = "record") =>
        \A j \in DOMAIN spawned :
            (/\ j + 1 \in DOMAIN spawned
             /\ spawned[j].nb = notebooks[i] /\ spawned[j + 1].nb = notebooks[i]
             /\ spawned[j].attempt = "primary" /\ spawned[j].how = "exit"
             /\ spawned[j + 1].attempt = "fallback" /\ spawned[j + 1].how = "exit"
             /\ spawned[j + 1].returncode # 0) =>
                /\ ~ret.ok
                /\ ret.msg.kind = "Both attempts failed."
                /\ ret.msg.first = ProcOf(spawned[j].returncode)
                /\ ret.msg.second = ProcOf(spawned[j + 1].returncode)

C21_Witness ==
    /\ variant = "A" /\ pc = "record"
    /\ ~ret.ok
    /\ ret.msg.kind = "Both attempts failed."
    /\ ret.msg.first.returncode = 1
    /\ ret.msg.second.returncode = 2

(* the validator of runner A has returned for a parsed document that has   *)
(* the basic keys, nbformat <= 3 and a list of worksheets                  *)
LegacyValidated ==
    /\ variant = "A" /\ pc = "done" /\ document.file = "json"
    /\ document.has_metadata /\ document.has_nbformat
    /\ document.nbformat <= 3
    /\ document.has_worksheets /\ document.worksheets_is_list

(* what a legacy cell lacks, "" when it lacks nothing *)
LegacyCellLacks(c) ==
    CASE ~c.has_cell_type -> "Worksheet {ws_i}, Cell {i} missing cell_type"
      [] c.has_cell_type /\ c.cell_type = "code" /\ ~c.has_input ->
           "Worksheet {ws_i}, Code cell {i} missing input"
      [] c.has_cell_type /\ c.cell_type = "markdown" /\ ~c.has_source ->
           "Worksheet {ws_i}, Markdown cell {i} missing source"
      [] OTHER -> ""

(* the places << worksheet, cell >> (1-based, cell 0 for the worksheet     *)
(* itself) of a legacy document where a requirement is missing             *)
LegacyMissing(d) ==
    { p \in (DOMAIN d.worksheets) \X (0..MaxCells) :
        LET w == d.worksheets[p[1]] IN
        IF p[2] = 0 THEN ~w.has_cells \/ ~w.cells_is_list
        ELSE /\ w.has_cells /\ w.cells_is_list
             /\ p[2] \in DOMAIN w.cells
             /\ LegacyCellLacks(w.cells[p[2]]) # "" }

ScanBefore(p, q) == p[1] < q[1] \/ (p[1] = q[1] /\ p[2] <= q[2])

C23_ErrorsKeysAreFailed ==
    (variant # "S" /\ (pc = "loop" \/ AfterLoop)) =>
        /\ SeqSet(passed) \cap SeqSet(failed) = {}
        /\ DOMAIN errors \subseteq SeqSet(failed)
        /\ SeqSet(failed) \subseteq DOMAIN errors

C23_Witness ==
    /\ variant # "S" /\ pc = "loop"
    /\ passed # << >>
    /\ Len(failed) >= 2
    /\ DOMAIN errors = SeqSet(failed)

(* runner A has left the loop of a run started with --no-execute *)
StructureOnlyDone == variant = "A" /\ ~execute_notebooks /\ AfterLoop

(* the k-th notebook is recorded as its validation says *)
RecordedAsValidated(k) ==
    LET nb == notebooks[k] IN
    IF test_notebook_structure(tree[nb]).ok
    THEN Count(passed, nb) = 1 /\ Count(failed, nb) = 0
    ELSE Count(failed, nb) = 1 /\ Count(passed, nb) = 0

C25_StopsOnlyAtPositiveThreshold ==
    variant = "A" =>
        /\ stopped =>
               /\ max_failures # None /\ max_failures > 0
               /\ failure_count >= max_failures
        /\ ((max_failures = None \/ max_failures = 0) /\ AfterLoop /\ root_exists) =>
               \A k \in DOMAIN notebooks : Processed(k)
        /\ (max_failures # None /\ max_failures > 0) =>
               /\ Len(failed) <= max_failures
               /\ (Len(failed) = max_failures /\ pc = "loop") => stopped

(* the texts an `except` clause of test_notebook_structure puts first *)
HandlerReasons == { "Invalid JSON: ", "Error reading file: " }

(* C26: for every file, whatever its content, test_notebook_structure has  *)
(* returned an outcome: no exception is on its way out of it; when its     *)
(* body raised, the outcome is invalid with the text of a handler, and an  *)
(* outcome is valid only with an empty reason.                             *)
C26_ValidatorTotal ==
    (variant = "A" /\ pc = "done") =>
        /\ outcome.reason # RaisedMark
        /\ outcome.ok \in BOOLEAN
        /\ outcome.ok <=> outcome.reason = ""
        /\ StructureBody(document).reason = RaisedMark =>
               /\ ~outcome.ok
               /\ outcome.reason \in HandlerReasons
               /\ outcome.text = StructureBody(document).text

C26_Witness ==
    /\ variant = "A" /\ pc = "done"
    /\ document.file = "json" /\ document.root = "mapping"
    /\ document.has_cells /\ document.cells_is_list
    /\ \E k \in DOMAIN document.cells : ~document.cells[k].mapping
    /\ ~outcome.ok
    /\ outcome.reason = "Error reading file: "
    /\ outcome.text = "TypeError"

====
